---- MODULE Spec2Model ----
(***************************************************************************)
(* Model of src/nomknod/nomknod.c: the mknod(), mknodat(), _mknod() and     *)
(* _xmknod() shim.  mknod() and mknodat() call open()/openat() with         *)
(* O_CREAT | O_EXCL and close the descriptor; _mknod() and _xmknod()        *)
(* return 0.                                                               *)
(*                                                                         *)
(* The state is the filesystem, the descriptor table of the calling        *)
(* process, and for each calling thread its position in the function it    *)
(* runs, its local tmpfd, its arguments and its result.  mknod() and       *)
(* mknodat() take two steps, the open and the close, so that the steps of  *)
(* concurrent calls interleave; a failed open returns in the same step.    *)
(*                                                                         *)
(* open(), openat() and close() are the platform's.  They are modelled     *)
(* from their POSIX contract as illumos implements it: the starting        *)
(* directory is looked up first, then a descriptor is reserved, then the   *)
(* path is resolved; O_CREAT | O_EXCL fails with EEXIST on any existing    *)
(* entry; a created file is a regular file with the permission bits of     *)
(* mode less the umask; close() releases the descriptor also when it       *)
(* reports EINTR.  Every directory is searchable by the caller, a          *)
(* directory is writable when its owner write bit is set, and there are    *)
(* no symbolic links.                                                      *)
(*                                                                         *)
(* Spec is one thread making any calls in any order.  SpecRace is NCallers *)
(* threads each calling mknod() once on the same path.  SpecTwoRuns is one *)
(* thread in one process after another, with one earlier call remembered.  *)
(***************************************************************************)
EXTENDS Integers, Sequences, FiniteSets, TLC

VARIABLES
    fs,      \* the filesystem: absolute path |-> [st_mode, st_size]
    fdtab,   \* the process's open descriptors: descriptor |-> path of its file
    pc,      \* per thread: "idle", or the line of the function it is at
    tmpfd,   \* per thread: the local tmpfd of mknod()/mknodat()
    cur,     \* per thread: the arguments of the call in progress
    res,     \* per thread: whether its call has returned, the value returned, and
             \* the errno the call has set ("ENONE" when it has set none)
    ev,      \* the last step taken: which call, by which thread, at which line
    obs,     \* per thread: its current or last call, with the filesystem before and after
    memo,    \* one completed call remembered from an earlier moment (SpecTwoRuns)
    ncalls   \* the calls completed in this process so far (SpecTwoRuns)

vars == <<fs, fdtab, pc, tmpfd, cur, res, ev, obs, memo, ncalls>>

(* ------------------------------ bounds -------------------------------- *)

\* number of threads that call into the shim concurrently
NCallers == 3

\* size of the process's descriptor table
OPEN_MAX == 7

\* the number of earlier calls of a process that are told apart (SpecTwoRuns)
MaxHist == 2

Callers == 1..NCallers

(* ------------------------ <sys/stat.h>, <fcntl.h> ---------------------- *)

S_IFCHR == 8192
S_IFDIR == 16384
S_IFREG == 32768
S_IWUSR == 128
AT_FDCWD == -100

\* 07777 + 1: the file type bits of a mode lie above, the permission bits below
PermSpan == 4096

\* a and not b, bit by bit
RECURSIVE AndNot(_, _)
AndNot(a, b) ==
    IF a = 0 THEN 0
    ELSE (IF a % 2 = 1 /\ b % 2 = 0 THEN 1 ELSE 0) + 2 * AndNot(a \div 2, b \div 2)

FileType(st_mode) == (st_mode \div PermSpan) * PermSpan

S_ISDIR(st_mode) == FileType(st_mode) = S_IFDIR
S_ISREG(st_mode) == FileType(st_mode) = S_IFREG

\* owner write permission (the caller owns every directory of the model)
Writable(st_mode) == (st_mode \div S_IWUSR) % 2 = 1

(* ---------------------------- environment ------------------------------ *)

\* the process's file mode creation mask (022)
Umask == 18

\* the process's working directory: the root
Cwd == << >>

\* the filesystem before the first call: absolute path |-> [st_mode, st_size]
InitFs ==
    ( << >> :> [st_mode |-> S_IFDIR + 493, st_size |-> 0] )
    @@ ( <<"dev">> :> [st_mode |-> S_IFDIR + 493, st_size |-> 0] )
    @@ ( <<"dev", "null">> :> [st_mode |-> S_IFCHR + 438, st_size |-> 0] )
    @@ ( <<"tmp">> :> [st_mode |-> S_IFDIR + 511, st_size |-> 0] )
    @@ ( <<"tmp", "f">> :> [st_mode |-> S_IFREG + 420, st_size |-> 5] )
    @@ ( <<"ro">> :> [st_mode |-> S_IFDIR + 365, st_size |-> 0] )

\* the descriptors open before the first call: descriptor |-> the path of its file
InitFdtab ==
    ( 0 :> <<"dev", "null">> ) @@ ( 1 :> <<"dev", "null">> ) @@ ( 2 :> <<"dev", "null">> )
    @@ ( 3 :> <<"tmp">> ) @@ ( 4 :> <<"tmp", "f">> )

(* ------------------------------ inputs --------------------------------- *)

\* a path argument: a NULL pointer, or a string of name and "/" tokens
NullPath == [null |-> TRUE, s |-> << >>]
Str(s) == [null |-> FALSE, s |-> s]

\* the paths given to mknod() and mknodat(): empty, new (relative and absolute),
\* existing (a regular file with content, a device node), in a directory that is
\* not writable, in a directory that does not exist
Paths ==
    { Str(<< >>),
      Str(<<"x">>),
      Str(<<"/", "tmp", "/", "x">>),
      Str(<<"tmp", "/", "x">>),
      Str(<<"/", "tmp", "/", "f">>),
      Str(<<"/", "dev", "/", "null">>),
      Str(<<"/", "ro", "/", "x">>),
      Str(<<"/", "nodir", "/", "x">>) }

\* the paths given to _xmknod()
XPaths ==
    { NullPath,
      Str(<< >>),
      Str(<<"/", "nodir", "/", "x">>),
      Str(<<"/", "tmp", "/", "x">>) }

\* 0644, S_IFCHR | 0600
Modes == { 420, S_IFCHR + 384 }

Devs == { 0, 5 }

\* AT_FDCWD, a directory, a regular file, a descriptor that is never open
Dirfds == { AT_FDCWD, 3, 4, OPEN_MAX }

Versions == { 0, 2 }

\* errno values are named: EEXIST, EACCES, ENOENT, ENOTDIR, EBADF, EFAULT, EMFILE,
\* EINTR; "ENONE" stands for errno not having been set
NoErr == "ENONE"

(* --------------------------- open(2), close(2) ------------------------- *)

IsAbsolute(s) == Len(s) > 0 /\ s[1] = "/"

Components(s) == SelectSeq(s, LAMBDA t : t # "/")

\* walk every component but the last from directory dir; the last one names the target
RECURSIVE Lookup(_, _, _)
Lookup(f, dir, comps) ==
    IF Len(comps) = 1 THEN [errno |-> NoErr, target |-> dir \o comps]
    ELSE LET d == Append(dir, Head(comps))
         IN  IF d \notin DOMAIN f THEN [errno |-> "ENOENT", target |-> d]
             ELSE IF ~S_ISDIR(f[d].st_mode) THEN [errno |-> "ENOTDIR", target |-> d]
             ELSE Lookup(f, d, Tail(comps))

\* the directory a path is resolved from: [errno, dir]
StartDir(tab, fd, path) ==
    IF IsAbsolute(path.s) THEN [errno |-> NoErr, dir |-> << >>]
    ELSE IF fd = AT_FDCWD THEN [errno |-> NoErr, dir |-> Cwd]
    ELSE IF fd \notin DOMAIN tab THEN [errno |-> "EBADF", dir |-> << >>]
    ELSE [errno |-> NoErr, dir |-> tab[fd]]

FreeFds(tab) == (0..(OPEN_MAX - 1)) \ DOMAIN tab

LowestFree(tab) == CHOOSE n \in FreeFds(tab) : \A m \in FreeFds(tab) : n <= m

OpenFailed(f, tab, e) == [fd |-> -1, errno |-> e, fs |-> f, fdtab |-> tab]

OpenedAt(f, tab, target) ==
    [fd |-> LowestFree(tab), errno |-> NoErr, fs |-> f,
     fdtab |-> tab @@ (LowestFree(tab) :> target)]

\* the file open() creates: a regular file, whatever type bits mode carries
NewFile(mode) == [st_mode |-> S_IFREG + AndNot(mode % PermSpan, Umask), st_size |-> 0]

\* openat(fd, path, oflag, mode) on filesystem f and descriptor table tab:
\* [fd, errno, fs, fdtab], fd = -1 on failure
openat(f, tab, fd, path, oflag, mode) ==
    IF path.null THEN OpenFailed(f, tab, "EFAULT")
    ELSE
    LET sd == StartDir(tab, fd, path)
        comps == Components(path.s)
    IN  IF sd.errno # NoErr THEN OpenFailed(f, tab, sd.errno)
        ELSE IF ~S_ISDIR(f[sd.dir].st_mode) THEN OpenFailed(f, tab, "ENOTDIR")
        ELSE IF FreeFds(tab) = {} THEN OpenFailed(f, tab, "EMFILE")
        ELSE IF comps = << >> THEN OpenFailed(f, tab, "ENOENT")
        ELSE
        LET lk == Lookup(f, sd.dir, comps)
            parent == SubSeq(lk.target, 1, Len(lk.target) - 1)
        IN  IF lk.errno # NoErr THEN OpenFailed(f, tab, lk.errno)
            ELSE IF lk.target \in DOMAIN f
            THEN IF {"O_CREAT", "O_EXCL"} \subseteq oflag
                 THEN OpenFailed(f, tab, "EEXIST")
                 ELSE OpenedAt(f, tab, lk.target)
            ELSE IF "O_CREAT" \notin oflag THEN OpenFailed(f, tab, "ENOENT")
            ELSE IF ~Writable(f[parent].st_mode) THEN OpenFailed(f, tab, "EACCES")
            ELSE OpenedAt(f @@ (lk.target :> NewFile(mode)), tab, lk.target)

\* open(path, oflag, mode): openat() from the working directory
open(f, tab, path, oflag, mode) == openat(f, tab, AT_FDCWD, path, oflag, mode)

\* close(fd) releases the descriptor, also when it reports an error:
\* [ret, errno, fdtab]
CloseResults(tab, fd) ==
    IF fd \notin DOMAIN tab
    THEN { [ret |-> -1, errno |-> "EBADF", fdtab |-> tab] }
    ELSE { [ret |-> 0, errno |-> NoErr, fdtab |-> [n \in DOMAIN tab \ {fd} |-> tab[n]]],
           [ret |-> -1, errno |-> "EINTR", fdtab |-> [n \in DOMAIN tab \ {fd} |-> tab[n]]] }

(* ------------------------------ nomknod.c ------------------------------ *)

Call(fn, fd, path, mode, dev, version) ==
    [fn |-> fn, fd |-> fd, path |-> path, mode |-> mode, dev |-> dev,
     version |-> version]

NoCall == Call("none", AT_FDCWD, NullPath, 0, 0, 0)

\* faulty variants of the oflag argument: O_CREAT forgotten, O_EXCL forgotten
MknodOflag_NoCreat == {"O_EXCL"}
MknodOflag_NoExcl == {"O_CREAT"}

\* the oflag argument of open() in mknod() and of openat() in mknodat()
MknodOflag == {"O_CREAT", "O_EXCL"}
MknodatOflag == {"O_CREAT", "O_EXCL"}

\* tmpfd = open(path, O_CREAT | O_EXCL, mode): dev is not passed on
mknod_open(f, tab, path, mode, dev) == open(f, tab, path, MknodOflag, mode)

\* faulty variant: open() called where openat() is meant, so that fd is not used
mknodat_open_cwd(f, tab, fd, path, mode, dev) == open(f, tab, path, MknodatOflag, mode)

\* faulty variant: the node type asked for in mode is given to the new entry
mknodat_open_node(f, tab, fd, path, mode, dev) ==
    LET r == openat(f, tab, fd, path, MknodatOflag, mode)
    IN  IF r.fd = -1 \/ FileType(mode) = 0 THEN r
        ELSE [r EXCEPT !.fs = [r.fs EXCEPT ![r.fdtab[r.fd]].st_mode =
                                   FileType(mode) + (@ % PermSpan)]]

\* tmpfd = openat(fd, path, O_CREAT | O_EXCL, mode): dev is not passed on
mknodat_open(f, tab, fd, path, mode, dev) == openat(f, tab, fd, path, MknodatOflag, mode)

\* faulty variant: close(tmpfd) is called before the test of tmpfd, and with
\* tmpfd = -1 it sets errno to EBADF
mknod_fail_closes(r) == [done |-> TRUE, ret |-> -1, errno |-> "EBADF"]

\* if (tmpfd == -1) return (-1): the errno open() set is left as it is
mknod_fail(r) == [done |-> TRUE, ret |-> -1, errno |-> r.errno]
mknodat_fail(r) == [done |-> TRUE, ret |-> -1, errno |-> r.errno]

\* faulty variant: the close() is missing in mknodat()
mknodat_close_missing(tab, fd) == { [ret |-> 0, errno |-> NoErr, fdtab |-> tab] }

\* faulty variant: the close() is missing
mknod_close_missing(tab, fd) == { [ret |-> 0, errno |-> NoErr, fdtab |-> tab] }

\* (void) close(tmpfd)
mknod_close(tab, fd) == CloseResults(tab, fd)
mknodat_close(tab, fd) == CloseResults(tab, fd)

\* faulty variant: return (close(tmpfd))
mknod_return_close(cr, e) ==
    [done |-> TRUE, ret |-> cr.ret, errno |-> IF cr.ret = -1 THEN cr.errno ELSE e]

\* return (0), whatever close() returned; errno is what close() left
mknod_return(cr, e) ==
    [done |-> TRUE, ret |-> 0, errno |-> IF cr.ret = -1 THEN cr.errno ELSE e]
mknodat_return(cr, e) ==
    [done |-> TRUE, ret |-> 0, errno |-> IF cr.ret = -1 THEN cr.errno ELSE e]

\* faulty variant: _xmknod() hands its arguments to mknod()
_xmknod_forward(f, tab, version, path, mode, dev) ==
    LET r == open(f, tab, path, {"O_CREAT", "O_EXCL"}, mode)
    IN  [ret |-> IF r.fd = -1 THEN -1 ELSE 0, fs |-> r.fs, fdtab |-> tab]

\* _mknod() and _xmknod(): return (0); [ret, fs, fdtab]
_mknod(f, tab) == [ret |-> 0, fs |-> f, fdtab |-> tab]
_xmknod(f, tab, version, path, mode, dev) == [ret |-> 0, fs |-> f, fdtab |-> tab]

Step(c, call, line) == [caller |-> c, call |-> call, line |-> line]

\* what thread c's call has done so far: the filesystem when it began and now, and
\* once it has returned its result (errno counts only with a result of -1)
Observed(c, call, before) ==
    [call |-> call, before |-> before, after |-> fs', done |-> res'[c].done,
     ret |-> res'[c].ret,
     err |-> IF res'[c].done /\ res'[c].ret = -1 THEN res'[c].errno ELSE NoErr]

NoObs ==
    [call |-> NoCall, before |-> InitFs, after |-> InitFs, done |-> FALSE, ret |-> 0,
     err |-> NoErr]

Init ==
    /\ fs = InitFs
    /\ fdtab = InitFdtab
    /\ pc = [c \in Callers |-> "idle"]
    /\ tmpfd = [c \in Callers |-> -1]
    /\ cur = [c \in Callers |-> NoCall]
    /\ res = [c \in Callers |-> [done |-> FALSE, ret |-> 0, errno |-> NoErr]]
    /\ ev = Step(1, NoCall, "none")
    /\ obs = [c \in Callers |-> NoObs]
    /\ memo = [o |-> NoObs, n |-> 0]
    /\ ncalls = 0

\* mknod(), lines 21-23: the open, and the return of -1 when it fails
Mknod(c, path, mode, dev) ==
    /\ pc[c] = "idle"
    /\ LET r == mknod_open(fs, fdtab, path, mode, dev)
           call == Call("mknod", AT_FDCWD, path, mode, dev, 0)
       IN  /\ fs' = r.fs
           /\ fdtab' = r.fdtab
           /\ tmpfd' = [tmpfd EXCEPT ![c] = r.fd]
           /\ IF r.fd = -1
              THEN /\ res' = [res EXCEPT ![c] = mknod_fail(r)]
                   /\ ev' = Step(c, call, "return")
                   /\ UNCHANGED <<pc, cur>>
              ELSE /\ pc' = [pc EXCEPT ![c] = "mknod_close"]
                   /\ cur' = [cur EXCEPT ![c] = call]
                   /\ res' = [res EXCEPT ![c] = [done |-> FALSE, ret |-> 0, errno |-> NoErr]]
                   /\ ev' = Step(c, call, "open")
           /\ obs' = [obs EXCEPT ![c] = Observed(c, call, fs)]

\* mknod(), lines 25-27: the close and the return of 0
MknodClose(c) ==
    /\ pc[c] = "mknod_close"
    /\ \E cr \in mknod_close(fdtab, tmpfd[c]) :
          /\ fdtab' = cr.fdtab
          /\ res' = [res EXCEPT ![c] = mknod_return(cr, res[c].errno)]
    /\ pc' = [pc EXCEPT ![c] = "idle"]
    /\ cur' = [cur EXCEPT ![c] = NoCall]
    /\ ev' = Step(c, cur[c], "return")
    /\ UNCHANGED <<fs, tmpfd>>
    /\ obs' = [obs EXCEPT ![c] = Observed(c, cur[c], obs[c].before)]

\* mknodat(), lines 35-37
Mknodat(c, fd, path, mode, dev) ==
    /\ pc[c] = "idle"
    /\ LET r == mknodat_open(fs, fdtab, fd, path, mode, dev)
           call == Call("mknodat", fd, path, mode, dev, 0)
       IN  /\ fs' = r.fs
           /\ fdtab' = r.fdtab
           /\ tmpfd' = [tmpfd EXCEPT ![c] = r.fd]
           /\ IF r.fd = -1
              THEN /\ res' = [res EXCEPT ![c] = mknodat_fail(r)]
                   /\ ev' = Step(c, call, "return")
                   /\ UNCHANGED <<pc, cur>>
              ELSE /\ pc' = [pc EXCEPT ![c] = "mknodat_close"]
                   /\ cur' = [cur EXCEPT ![c] = call]
                   /\ res' = [res EXCEPT ![c] = [done |-> FALSE, ret |-> 0, errno |-> NoErr]]
                   /\ ev' = Step(c, call, "open")
           /\ obs' = [obs EXCEPT ![c] = Observed(c, call, fs)]

\* mknodat(), lines 39-41
MknodatClose(c) ==
    /\ pc[c] = "mknodat_close"
    /\ \E cr \in mknodat_close(fdtab, tmpfd[c]) :
          /\ fdtab' = cr.fdtab
          /\ res' = [res EXCEPT ![c] = mknodat_return(cr, res[c].errno)]
    /\ pc' = [pc EXCEPT ![c] = "idle"]
    /\ cur' = [cur EXCEPT ![c] = NoCall]
    /\ ev' = Step(c, cur[c], "return")
    /\ UNCHANGED <<fs, tmpfd>>
    /\ obs' = [obs EXCEPT ![c] = Observed(c, cur[c], obs[c].before)]

\* _mknod(), lines 44-48
MknodLegacy(c) ==
    /\ pc[c] = "idle"
    /\ LET r == _mknod(fs, fdtab)
       IN  /\ fs' = r.fs
           /\ fdtab' = r.fdtab
           /\ res' = [res EXCEPT ![c] = [done |-> TRUE, ret |-> r.ret, errno |-> NoErr]]
    /\ ev' = Step(c, Call("_mknod", AT_FDCWD, NullPath, 0, 0, 0), "return")
    /\ obs' = [obs EXCEPT ![c] = Observed(c, ev'.call, fs)]
    /\ UNCHANGED <<pc, tmpfd, cur>>

\* _xmknod(), lines 50-54
Xmknod(c, version, path, mode, dev) ==
    /\ pc[c] = "idle"
    /\ LET r == _xmknod(fs, fdtab, version, path, mode, dev)
       IN  /\ fs' = r.fs
           /\ fdtab' = r.fdtab
           /\ res' = [res EXCEPT ![c] = [done |-> TRUE, ret |-> r.ret, errno |-> NoErr]]
    /\ ev' = Step(c, Call("_xmknod", AT_FDCWD, path, mode, dev, version), "return")
    /\ obs' = [obs EXCEPT ![c] = Observed(c, ev'.call, fs)]
    /\ UNCHANGED <<pc, tmpfd, cur>>

\* one thread calling the four functions in any order with any arguments
Next ==
    \/ \E path \in Paths, mode \in Modes, dev \in Devs :
          Mknod(1, path, mode, dev) /\ UNCHANGED <<memo, ncalls>>
    \/ MknodClose(1) /\ UNCHANGED <<memo, ncalls>>
    \/ \E fd \in Dirfds, path \in Paths, mode \in Modes, dev \in Devs :
          Mknodat(1, fd, path, mode, dev) /\ UNCHANGED <<memo, ncalls>>
    \/ MknodatClose(1) /\ UNCHANGED <<memo, ncalls>>
    \/ MknodLegacy(1) /\ UNCHANGED <<memo, ncalls>>
    \/ \E version \in Versions, path \in XPaths, mode \in Modes, dev \in Devs :
          Xmknod(1, version, path, mode, dev) /\ UNCHANGED <<memo, ncalls>>

Spec == Init /\ [][Next]_vars

\* two spellings of /tmp/x, which does not exist at first
RacePaths == { Str(<<"/", "tmp", "/", "x">>), Str(<<"tmp", "/", "x">>) }

\* every thread calls mknod() once, all on the same path that does not exist,
\* and their steps interleave in any order
NextRace ==
    \/ \E c \in Callers, path \in RacePaths, mode \in Modes, dev \in Devs :
          ~res[c].done /\ Mknod(c, path, mode, dev) /\ UNCHANGED <<memo, ncalls>>
    \/ \E c \in Callers : MknodClose(c) /\ UNCHANGED <<memo, ncalls>>

SpecRace == Init /\ [][NextRace]_vars

\* the calls made in SpecTwoRuns
HistCalls ==
    { Call("mknod", AT_FDCWD, Str(<<"x">>), 420, 0, 0),
      Call("mknod", AT_FDCWD, Str(<<"/", "tmp", "/", "x">>), S_IFCHR + 384, 5, 0),
      Call("mknod", AT_FDCWD, Str(<<"/", "tmp", "/", "f">>), S_IFCHR + 384, 5, 0),
      Call("mknodat", 3, Str(<<"x">>), 420, 5, 0),
      Call("mknodat", OPEN_MAX, Str(<<"x">>), 420, 0, 0),
      Call("_mknod", AT_FDCWD, NullPath, 0, 0, 0),
      Call("_xmknod", AT_FDCWD, NullPath, S_IFCHR + 384, 5, 2) }

Do(c, call) ==
    CASE call.fn = "mknod" -> Mknod(c, call.path, call.mode, call.dev)
      [] call.fn = "mknodat" -> Mknodat(c, call.fd, call.path, call.mode, call.dev)
      [] call.fn = "_mknod" -> MknodLegacy(c)
      [] call.fn = "_xmknod" -> Xmknod(c, call.version, call.path, call.mode, call.dev)

\* when a call returns, count it, and remember it or keep what is remembered
Remember ==
    IF ev'.line = "return"
    THEN /\ ncalls' = IF ncalls < MaxHist THEN ncalls + 1 ELSE ncalls
         /\ memo' \in {memo, [o |-> obs'[ev'.caller], n |-> ncalls]}
    ELSE UNCHANGED <<memo, ncalls>>

\* the process ends and a new one starts, on the filesystem as it is or on a fresh
\* one; what is remembered of the earlier process is kept
Restart ==
    /\ pc[1] = "idle"
    /\ fs' \in {fs, InitFs}
    /\ fdtab' = InitFdtab
    /\ tmpfd' = [c \in Callers |-> -1]
    /\ cur' = [c \in Callers |-> NoCall]
    /\ res' = [c \in Callers |-> [done |-> FALSE, ret |-> 0, errno |-> NoErr]]
    /\ ev' = Step(1, NoCall, "none")
    /\ obs' = [c \in Callers |-> NoObs]
    /\ ncalls' = 0
    /\ UNCHANGED <<pc, memo>>

\* one thread calling the four functions, in one process after another
NextTwoRuns ==
    \/ \E call \in HistCalls : Do(1, call) /\ Remember
    \/ MknodClose(1) /\ Remember
    \/ MknodatClose(1) /\ Remember
    \/ Restart

SpecTwoRuns == Init /\ [][NextTwoRuns]_vars

(* ------------------------- reading a step ------------------------------ *)

\* the directory a dirfd refers to
DirOf(tab, fd) == IF fd = AT_FDCWD THEN Cwd ELSE tab[fd]

\* the absolute path a call's path argument names (the model has no symbolic links)
TargetOf(tab, call) ==
    (IF IsAbsolute(call.path.s) THEN << >> ELSE DirOf(tab, call.fd))
        \o Components(call.path.s)

ParentOf(a) == SubSeq(a, 1, Len(a) - 1)

\* an entry can be created at absolute path a: it is absent, its parent is a
\* writable directory
Creatable(f, a) ==
    /\ a # << >>
    /\ a \notin DOMAIN f
    /\ ParentOf(a) \in DOMAIN f
    /\ S_ISDIR(f[ParentOf(a)].st_mode)
    /\ Writable(f[ParentOf(a)].st_mode)

EmptyRegular(e) == S_ISREG(e.st_mode) /\ e.st_size = 0

\* the step taken is the first step (the open) of a call to fn
Starts(fn) == pc[ev'.caller] = "idle" /\ ev'.call.fn = fn

\* the step taken is the second step (the close and the return) of a call to fn
Finishes(fn) == pc[ev'.caller] # "idle" /\ ev'.call.fn = fn

\* the call of the step taken has returned ret to its caller
ReturnedNow(ret) ==
    /\ ev'.line = "return"
    /\ pc'[ev'.caller] = "idle"
    /\ res'[ev'.caller].done
    /\ res'[ev'.caller].ret = ret

\* the last step was the return of ret from a call to fn
LastReturned(fn, ret) ==
    /\ ev.line = "return"
    /\ ev.call.fn = fn
    /\ res[ev.caller].done
    /\ res[ev.caller].ret = ret

(* ------------------------------- claims -------------------------------- *)

\* C1: mknod(p, mode, dev) on a path p that does not exist, in an existing writable
\* directory, returns 0 for every mode and dev, and right after the call p is a
\* regular file of size zero.
C1_MknodCreates ==
    [][ /\ (Starts("mknod") /\ ~ev'.call.path.null
              /\ Creatable(fs, TargetOf(fdtab, ev'.call)))
           => /\ ev'.line = "open"
              /\ pc'[ev'.caller] = "mknod_close"
              /\ TargetOf(fdtab, ev'.call) \in DOMAIN fs'
              /\ EmptyRegular(fs'[TargetOf(fdtab, ev'.call)])
        /\ Finishes("mknod")
           => /\ ReturnedNow(0)
              /\ TargetOf(fdtab, ev'.call) \in DOMAIN fs'
              /\ EmptyRegular(fs'[TargetOf(fdtab, ev'.call)])
      ]_vars

\* a mknod() with device type bits in mode and a non-zero dev has returned 0 and
\* its path is an empty regular file
C1_Witness ==
    /\ LastReturned("mknod", 0)
    /\ FileType(ev.call.mode) = S_IFCHR
    /\ ev.call.dev # 0
    /\ ev.call.path = Str(<<"x">>)
    /\ <<"x">> \in DOMAIN fs
    /\ EmptyRegular(fs[<<"x">>])

\* C2: mknod(p, mode, dev) on a path p at which an entry exists, of any type and
\* however it came to exist, returns -1 with errno EEXIST and leaves the entry
\* (the whole filesystem) as it was.
C2_MknodExisting ==
    [][ (Starts("mknod") /\ ~ev'.call.path.null
           /\ Components(ev'.call.path.s) # << >>
           /\ TargetOf(fdtab, ev'.call) \in DOMAIN fs)
        => /\ ReturnedNow(-1)
           /\ res'[ev'.caller].errno = "EEXIST"
           /\ fs' = fs
      ]_vars

\* mknod() has failed with EEXIST on a path that an earlier call created, and
\* the entry is still the empty regular file that call made
C2_Witness ==
    /\ LastReturned("mknod", -1)
    /\ res[ev.caller].errno = "EEXIST"
    /\ ev.call.path = Str(<<"/", "tmp", "/", "x">>)
    /\ <<"tmp", "x">> \notin DOMAIN InitFs
    /\ EmptyRegular(fs[<<"tmp", "x">>])
    /\ fs[<<"tmp", "f">>] = InitFs[<<"tmp", "f">>]

\* C3: when N threads call mknod() concurrently on the same path that does not
\* exist, at most one call returns 0, every call that fails fails with EEXIST, and
\* once all N have returned exactly one has returned 0 and N-1 have failed.
C3_ExactlyOneCreates ==
    LET winners == {c \in Callers : res[c].done /\ res[c].ret = 0}
        losers == {c \in Callers : res[c].done /\ res[c].ret = -1}
    IN  /\ Cardinality(winners) <= 1
        /\ \A c \in losers : res[c].errno = "EEXIST"
        /\ (\A c \in Callers : res[c].done)
           => (Cardinality(winners) = 1 /\ Cardinality(losers) = NCallers - 1)

\* all N calls have returned: one with 0, and a different one with EEXIST before
\* the winner had closed its descriptor and returned
C3_Witness ==
    /\ NCallers >= 2
    /\ \A c \in Callers : res[c].done
    /\ \E c \in Callers : res[c].ret = 0 /\ ev.caller = c /\ ev.line = "return"
    /\ \E c \in Callers : res[c].ret = -1 /\ res[c].errno = "EEXIST"

\* C4: mknodat(dirfd, path, mode, dev) with a relative path creates the entry at
\* path resolved from dirfd's directory; with an absolute path it does not look
\* at dirfd and does exactly what mknod(path, mode, dev) does.
C4_MknodatResolution ==
    [][ /\ (Starts("mknodat") /\ ~IsAbsolute(ev'.call.path.s)
              /\ (ev'.call.fd = AT_FDCWD \/ ev'.call.fd \in DOMAIN fdtab)
              /\ S_ISDIR(fs[DirOf(fdtab, ev'.call.fd)].st_mode)
              /\ Creatable(fs, DirOf(fdtab, ev'.call.fd) \o Components(ev'.call.path.s)))
           => /\ pc'[ev'.caller] = "mknodat_close"
              /\ DOMAIN fs' =
                   DOMAIN fs \cup {DirOf(fdtab, ev'.call.fd) \o Components(ev'.call.path.s)}
              /\ EmptyRegular(fs'[DirOf(fdtab, ev'.call.fd) \o Components(ev'.call.path.s)])
        /\ (Starts("mknodat") /\ IsAbsolute(ev'.call.path.s))
           => LET r == mknod_open(fs, fdtab, ev'.call.path, ev'.call.mode, ev'.call.dev)
              IN  /\ fs' = r.fs
                  /\ fdtab' = r.fdtab
                  /\ tmpfd'[ev'.caller] = r.fd
                  /\ (r.fd = -1) => (ReturnedNow(-1) /\ res'[ev'.caller] = mknod_fail(r))
                  /\ (r.fd # -1) => pc'[ev'.caller] = "mknodat_close"
        /\ Finishes("mknodat") => ReturnedNow(0)
      ]_vars

\* mknodat(3, "x") has returned 0: descriptor 3 is /tmp, the working directory is
\* /, and the new entry is /tmp/x, not /x
C4_Witness ==
    /\ LastReturned("mknodat", 0)
    /\ ev.call.fd = 3
    /\ ev.call.path = Str(<<"x">>)
    /\ <<"tmp", "x">> \in DOMAIN fs
    /\ <<"x">> \notin DOMAIN fs

\* C5: every entry that a call to mknod, mknodat, _mknod or _xmknod added to the
\* filesystem is a regular file of size zero, never a device, FIFO or socket node.
C5_OnlyEmptyRegularFiles ==
    \A a \in DOMAIN fs \ DOMAIN InitFs : EmptyRegular(fs[a])

\* mknodat() with S_IFCHR in mode and a non-zero dev has added an entry
C5_Witness ==
    /\ LastReturned("mknodat", 0)
    /\ FileType(ev.call.mode) = S_IFCHR
    /\ ev.call.dev # 0
    /\ TargetOf(fdtab, ev.call) \in DOMAIN fs \ DOMAIN InitFs

\* C6: _mknod() and _xmknod(version, path, mode, dev) return 0 for every input and
\* leave the filesystem (and the descriptor table) as it was.
C6_StubsDoNothing ==
    [][ (Starts("_mknod") \/ Starts("_xmknod"))
        => /\ ReturnedNow(0)
           /\ fs' = fs
           /\ fdtab' = fdtab
      ]_vars

\* _xmknod() has returned 0 for a NULL path
C6_Witness ==
    /\ LastReturned("_xmknod", 0)
    /\ ev.call.path.null
    /\ \E a \in DOMAIN fs : a \notin DOMAIN InitFs

\* C7: when open()/openat() fails inside mknod()/mknodat(), the call returns -1, the
\* caller's errno is the one the failed open set, and the filesystem is unchanged.
C7_FailurePropagated ==
    [][ (Starts("mknod") \/ Starts("mknodat"))
        => LET r == openat(fs, fdtab, ev'.call.fd, ev'.call.path,
                           {"O_CREAT", "O_EXCL"}, ev'.call.mode)
           IN  (r.fd = -1)
               => /\ ReturnedNow(-1)
                  /\ res'[ev'.caller].errno = r.errno
                  /\ r.errno \in {"EEXIST", "EACCES", "ENOENT", "ENOTDIR", "EBADF"}
                  /\ fs' = fs
                  /\ fdtab' = fdtab
      ]_vars

\* mknod() in a directory that is not writable has returned -1 with EACCES
C7_Witness ==
    /\ LastReturned("mknod", -1)
    /\ ev.call.path = Str(<<"/", "ro", "/", "x">>)
    /\ res[ev.caller].errno = "EACCES"

\* C8: the descriptor mknod()/mknodat() opens is closed before the function
\* returns: a thread inside a call holds exactly its tmpfd, and with no call in
\* progress the process's open descriptors are the ones it had at the start.
C8_NoDescriptorLeak ==
    /\ DOMAIN fdtab = DOMAIN InitFdtab \cup {tmpfd[c] : c \in {d \in Callers : pc[d] # "idle"}}
    /\ \A n \in DOMAIN InitFdtab : fdtab[n] = InitFdtab[n]
    /\ \A c \in Callers : pc[c] # "idle" => tmpfd[c] \notin DOMAIN InitFdtab

\* a successful mknodat() has returned after a failed one and a successful one
\* before it (both entries exist), and the descriptor table is the initial one
C8_Witness ==
    /\ LastReturned("mknodat", 0)
    /\ <<"x">> \in DOMAIN fs
    /\ <<"tmp", "x">> \in DOMAIN fs
    /\ fdtab = InitFdtab

\* C9: a call's result and the filesystem it leaves depend only on its arguments
\* and on the filesystem at the moment of the call, not on the calls made before:
\* a call that has returned agrees with the remembered call, made at another
\* moment or in another process, when both had the same arguments and began on
\* the same filesystem.
C9_NoDependencyOnPriorCalls ==
    \A c \in Callers :
        (/\ memo.o.done
         /\ obs[c].done
         /\ obs[c].call = memo.o.call
         /\ obs[c].before = memo.o.before)
        => /\ obs[c].ret = memo.o.ret
           /\ obs[c].err = memo.o.err
           /\ obs[c].after = memo.o.after

\* mknod("x") has created /x as the first call of one process and again, on an
\* equal filesystem, after MaxHist or more other calls of another process
C9_Witness ==
    /\ memo.o.done
    /\ memo.n = 0
    /\ ncalls = MaxHist
    /\ MaxHist >= 2
    /\ LastReturned("mknod", 0)
    /\ obs[1].done
    /\ obs[1].call = memo.o.call
    /\ obs[1].before = memo.o.before
    /\ obs[1].call.path = Str(<<"x">>)
    /\ obs[1].after # obs[1].before

\* C10: a call to mknod() or mknodat() adds at most one entry, at the path it
\* resolves, and changes no entry that existed; it returns 0 exactly when it added
\* the entry, whatever close() reports.
C10_AtMostOneEntryAdded ==
    [][ /\ (Starts("mknod") \/ Starts("mknodat"))
           => /\ \A a \in DOMAIN fs : a \in DOMAIN fs' /\ fs'[a] = fs[a]
              /\ \/ /\ fs' = fs
                    /\ ReturnedNow(-1)
                 \/ /\ DOMAIN fs' = DOMAIN fs \cup {TargetOf(fdtab, ev'.call)}
                    /\ TargetOf(fdtab, ev'.call) \notin DOMAIN fs
                    /\ ev'.line = "open"
                    /\ pc'[ev'.caller] # "idle"
        /\ (Finishes("mknod") \/ Finishes("mknodat"))
           => /\ fs' = fs
              /\ ReturnedNow(0)
      ]_vars

\* mknod() has returned 0 although close() failed (errno is the EINTR it left)
C10_Witness ==
    /\ LastReturned("mknod", 0)
    /\ res[ev.caller].errno = "EINTR"
    /\ TargetOf(fdtab, ev.call) \in DOMAIN fs \ DOMAIN InitFs

====
